---- MODULE Spec2Model ----
(***************************************************************************)
(* The torchchat command-line front end: torchchat.py (the parser tree and *)
(* the dispatch on args.command) and cli.py (check_args, the shared        *)
(* argument schema, arg_init).                                             *)
(*                                                                         *)
(* One behaviour is one invocation of the program.  sys.argv is a          *)
(* sequence whose element k+1 is Python's sys.argv[k].  Optional values    *)
(* (None or a value) are sequences of length 0 or 1.  The collaborators    *)
(* that live outside these two files (download, generate, eval, export,    *)
(* torch, subprocess) are recorded in the trace `calls`, in call order.    *)
(***************************************************************************)
EXTENDS Integers, Sequences, FiniteSets, TLC

\* ------------------------------------------------------------------ bounds
MaxArgs == 4        \* tokens after the subcommand on the command line
MaxRuns == 3        \* applications of arg_init in SpecArgInit

\* --------------------------------------------------------------- constants
DefaultPort == 5000

Prog == "torchchat.py"
Commands ==
    {"chat", "browser", "download", "generate", "eval", "export", "list", "remove"}
Flags == {"--port", "--prompt", "--seed", "--quantize"}
IntFlags == {"--port", "--seed"}
IntTokens == {"0", "8080"}
Tokens == Flags \cup {"--"} \cup IntTokens \cup {"hi", "browser"}
DefaultPrompt == "Hello, my name is"
DefaultQuantize == "{ }"

None == << >>
Some(v) == << v >>

\* The file system arg_init looks at: a path is no file, or a file with text.
NoFile == "<no file>"
Paths == {"hi"}
FileTexts == {"{\"linear:int8\": {\"groupsize\": 32}}", "\"hi\"", "oops"}
FsStates == [Paths -> FileTexts \cup {NoFile}]

VARIABLES
    argv,       \* sys.argv, mutated by the browser branch
    raw,        \* sys.argv as the process was started (never changed)
    files,      \* the file system seen by Path.is_file / open
    artifacts,  \* is_model_downloaded(args.model, args.model_directory)
    args,       \* the argparse namespace
    pc,         \* position in torchchat.py's __main__ block
    i,          \* the browser branch's scan index
    port,       \* the browser branch's port local
    forwarded,  \* args_plus_chat
    command,    \* the list handed to subprocess.run
    calls,      \* collaborator calls so far, in order
    output,     \* "none", "usage_error" (argparse error) or "help" (print_help)
    runs        \* how many times arg_init has been applied

vars == << argv, raw, files, artifacts, args, pc, i, port, forwarded, command,
           calls, output, runs >>

\* ------------------------------------------------------- Python helpers
\* sys.argv[k], Python's zero-based indexing.
At(s, k) == s[k + 1]

\* Python truthiness of an optional string / an optional int.
TruthyStr(o) == o # None /\ o[1] # ""
TruthyInt(o) == o # None /\ o[1] # 0

\* int(token), argparse's type=int conversion.
IntOf(tok) == CASE tok = "0" -> 0 [] tok = "8080" -> 8080

\* A Python str value / a value json.loads returned.
Str(s) == [kind |-> "str", val |-> s]
JsonValid(text) ==
    text \in {"{ }", "{\"linear:int8\": {\"groupsize\": 32}}", "\"hi\""}
JsonLoads(text) ==
    CASE text = "{ }" -> [kind |-> "dict", val |-> "{}"]
      [] text = "{\"linear:int8\": {\"groupsize\": 32}}" ->
             [kind |-> "dict", val |-> "{'linear:int8': {'groupsize': 32}}"]
      [] text = "\"hi\"" -> Str("hi")

\* Path(p).is_file()
IsFile(fs, p) == p \in DOMAIN fs /\ fs[p] # NoFile

\* ------------------------------------------------- parser.parse_args()
\* The namespace a subparser starts from: the defaults of the shared schema.
Defaults(cmd) ==
    [command |-> cmd, model |-> None, seed |-> None, port |-> DefaultPort,
     prompt |-> DefaultPrompt, quantize |-> Str(DefaultQuantize),
     chat |-> FALSE, gui |-> FALSE]

SetFlag(ns, flag, v) ==
    CASE flag = "--port" -> [ns EXCEPT !.port = IntOf(v)]
      [] flag = "--prompt" -> [ns EXCEPT !.prompt = v]
      [] flag = "--seed" -> [ns EXCEPT !.seed = Some(IntOf(v))]
      [] flag = "--quantize" -> [ns EXCEPT !.quantize = Str(v)]

\* A subparser over the tokens rest[k..]: dd = a "--" was seen (the rest is
\* positional), got = the positional model was consumed, adj = the model was
\* the last thing consumed (argparse lets a "--" join that positional only).
RECURSIVE ParseSub(_, _, _, _, _, _)
ParseSub(rest, k, ns, dd, got, adj) ==
    IF k > Len(rest) THEN [ok |-> TRUE, ns |-> ns]
    ELSE LET t == rest[k] IN
      IF ~dd /\ t = "--" THEN
          IF got /\ ~adj THEN [ok |-> FALSE, ns |-> ns]
          ELSE ParseSub(rest, k + 1, ns, TRUE, got, adj)
      ELSE IF ~dd /\ t \in Flags THEN
          IF k + 1 > Len(rest) \/ rest[k + 1] \in Flags \cup {"--"}
             \/ (t \in IntFlags /\ rest[k + 1] \notin IntTokens)
          THEN [ok |-> FALSE, ns |-> ns]
          ELSE ParseSub(rest, k + 2, SetFlag(ns, t, rest[k + 1]), dd, got, FALSE)
      ELSE IF got THEN [ok |-> FALSE, ns |-> ns]
      ELSE ParseSub(rest, k + 1, [ns EXCEPT !.model = Some(t)], dd, TRUE, TRUE)

\* Mutant of ParseArgv: the subcommand is not checked against the subparsers.
ParseArgvAnyCommand(av) ==
    IF Len(av) < 2
    THEN [ok |-> FALSE, ns |-> Defaults("")]
    ELSE ParseSub(SubSeq(av, 3, Len(av)), 1, Defaults(At(av, 1)), FALSE, FALSE, TRUE)

\* parse_args on sys.argv[1:]: the required subcommand, then its subparser.
ParseArgv(av) ==
    IF Len(av) < 2 \/ At(av, 1) \notin Commands
    THEN [ok |-> FALSE, ns |-> Defaults("")]
    ELSE ParseSub(SubSeq(av, 3, Len(av)), 1, Defaults(At(av, 1)), FALSE, FALSE, TRUE)

\* Mutant of ArgInitFn: `args.seed is not None` in place of `args.seed`.
ArgInitFnSeedNotNone(a, fs) ==
    LET q == a.quantize
        bad == [err |-> "", args |-> a, seeded |-> FALSE]
        seeded == a.seed # None
    IN IF q.kind # "str" THEN [bad EXCEPT !.err = "TypeError"]
       ELSE IF IsFile(fs, q.val) THEN
           IF JsonValid(fs[q.val])
           THEN [err |-> "", args |-> [a EXCEPT !.quantize = JsonLoads(fs[q.val])],
                 seeded |-> seeded]
           ELSE [bad EXCEPT !.err = "JSONDecodeError"]
       ELSE [err |-> "", args |-> a, seeded |-> seeded]

\* ------------------------------------------------------------ arg_init
\* err: "" or the exception raised; seeded: torch.manual_seed was called.
ArgInitFn(a, fs) ==
    LET q == a.quantize
        bad == [err |-> "", args |-> a, seeded |-> FALSE]
        seeded == TruthyInt(a.seed)
    IN IF q.kind # "str" THEN [bad EXCEPT !.err = "TypeError"]
       ELSE IF IsFile(fs, q.val) THEN
           IF JsonValid(fs[q.val])
           THEN [err |-> "", args |-> [a EXCEPT !.quantize = JsonLoads(fs[q.val])],
                 seeded |-> seeded]
           ELSE [bad EXCEPT !.err = "JSONDecodeError"]
       ELSE [err |-> "", args |-> a, seeded |-> seeded]

\* Mutants of CheckArgs: the `not` before is_model_downloaded dropped; the
\* list of skipped names dropped; the `args.model` conjunct dropped.
CheckArgsNotDropped(a, name, present) ==
    IF name \notin {"download", "list", "remove"} /\ TruthyStr(a.model)
    THEN IF present
         THEN [acquire |-> TRUE,
               calls |-> << "check_args", "is_model_downloaded", "download_and_convert" >>]
         ELSE [acquire |-> FALSE, calls |-> << "check_args", "is_model_downloaded" >>]
    ELSE [acquire |-> FALSE, calls |-> << "check_args" >>]

CheckArgsNoSkipList(a, name, present) ==
    IF TruthyStr(a.model)
    THEN IF ~present
         THEN [acquire |-> TRUE,
               calls |-> << "check_args", "is_model_downloaded", "download_and_convert" >>]
         ELSE [acquire |-> FALSE, calls |-> << "check_args", "is_model_downloaded" >>]
    ELSE [acquire |-> FALSE, calls |-> << "check_args" >>]

CheckArgsNoModelTest(a, name, present) ==
    IF name \notin {"download", "list", "remove"}
    THEN IF ~present
         THEN [acquire |-> TRUE,
               calls |-> << "check_args", "is_model_downloaded", "download_and_convert" >>]
         ELSE [acquire |-> FALSE, calls |-> << "check_args", "is_model_downloaded" >>]
    ELSE [acquire |-> FALSE, calls |-> << "check_args" >>]

\* ---------------------------------------------------------- check_args
\* present = is_model_downloaded(args.model, args.model_directory), which
\* Python's `and` evaluates only when the first two conjuncts are true.
CheckArgs(a, name, present) ==
    IF name \notin {"download", "list", "remove"} /\ TruthyStr(a.model)
    THEN IF ~present
         THEN [acquire |-> TRUE,
               calls |-> << "check_args", "is_model_downloaded", "download_and_convert" >>]
         ELSE [acquire |-> FALSE, calls |-> << "check_args", "is_model_downloaded" >>]
    ELSE [acquire |-> FALSE, calls |-> << "check_args" >>]

\* -------------------------------------------------- browser: port scan
StrPort(s) == [ty |-> "str", n |-> 0, s |-> s]
IntPort(n) == [ty |-> "int", n |-> n, s |-> ""]
\* f"{port}"
Fmt(p) == IF p.ty = "int" THEN ToString(p.n) ELSE p.s

\* del sys.argv[k : k + 2]
DelTwo(av, k) == SubSeq(av, 1, k) \o SubSeq(av, k + 3, Len(av))

\* Mutant of ScanIter: the port is read at i, not at i + 1.
ScanIterOffByOne(av, k, p) ==
    IF ~(k < Len(av)) THEN [argv |-> av, i |-> k, port |-> p, exit |-> TRUE]
    ELSE IF At(av, k) = "--port" THEN
        IF k + 1 < Len(av)
        THEN [argv |-> DelTwo(av, k), i |-> k, port |-> StrPort(At(av, k)),
              exit |-> TRUE]
        ELSE [argv |-> av, i |-> k, port |-> p, exit |-> FALSE]
    ELSE [argv |-> av, i |-> k + 1, port |-> p, exit |-> FALSE]

\* One evaluation of `while i < len(sys.argv)` and, if it holds, of the body.
ScanIter(av, k, p) ==
    IF ~(k < Len(av)) THEN [argv |-> av, i |-> k, port |-> p, exit |-> TRUE]
    ELSE IF At(av, k) = "--port" THEN
        IF k + 1 < Len(av)
        THEN [argv |-> DelTwo(av, k), i |-> k, port |-> StrPort(At(av, k + 1)),
              exit |-> TRUE]
        ELSE [argv |-> av, i |-> k, port |-> p, exit |-> FALSE]
    ELSE [argv |-> av, i |-> k + 1, port |-> p, exit |-> FALSE]

\* "'{}'".format(s)
Quote(s) == "'" \o s \o "'"

RECURSIVE Join(_, _)
Join(sep, ss) ==
    IF ss = << >> THEN ""
    ELSE IF Len(ss) = 1 THEN ss[1]
    ELSE ss[1] \o sep \o Join(sep, Tail(ss))

\* ["'{}'".format(s) for s in sys.argv[1:] if s != "browser"] + ['"--chat"']
ArgsPlusChat(av) ==
    LET kept == SelectSeq(Tail(av), LAMBDA s : s # "browser")
    IN [k \in 1..Len(kept) |-> Quote(kept[k])] \o << "\"--chat\"" >>

FlaskCommand(av, p) ==
    << "flask", "--app",
       "chat_in_browser:create_app(" \o Join(", ", ArgsPlusChat(av)) \o ")",
       "run", "--port", Fmt(p) >>

\* ------------------------------------------------------------- actions
TokenSeqs(n) == UNION {[1..k -> Tokens] : k \in 0..n}

\* Locals of the browser branch before that branch has run.
NoLocals ==
    /\ i = 0
    /\ port = IntPort(DefaultPort)
    /\ forwarded = << >>
    /\ command = << >>

\* The file system and the artifact directory.  An invocation that the parser
\* rejects exits before it reads either, so one environment stands for all.
Environment ==
    IF ParseArgv(argv).ok
    THEN files \in FsStates /\ artifacts \in BOOLEAN
    ELSE files = [p \in Paths |-> NoFile] /\ artifacts = FALSE

\* The process starts: torchchat.py <command> <up to MaxArgs tokens>.
Init ==
    /\ \E cmd \in Commands \cup {"foo"}, rest \in TokenSeqs(MaxArgs) :
           argv = << Prog, cmd >> \o rest
    /\ raw = argv
    /\ Environment
    /\ args = Defaults("")
    /\ pc = "parse"
    /\ NoLocals
    /\ calls = << >>
    /\ output = "none"
    /\ runs = 0

\* args = parser.parse_args(): on an error argparse prints the usage line and
\* the error, and exits with status 2.
ParseArgs ==
    /\ pc = "parse"
    /\ LET r == ParseArgv(argv) IN
         IF r.ok
         THEN /\ args' = r.ns
              /\ pc' = "arg_init"
              /\ output' = output
         ELSE /\ args' = args
              /\ pc' = "exit"
              /\ output' = "usage"
    /\ UNCHANGED << argv, raw, files, artifacts, i, port, forwarded, command,
                    calls, runs >>

\* args = arg_init(args)
ArgInit ==
    /\ pc = "arg_init"
    /\ LET r == ArgInitFn(args, files) IN
         /\ args' = r.args
         /\ calls' = IF r.seeded THEN Append(calls, "torch.manual_seed") ELSE calls
         /\ pc' = IF r.err = "" THEN "dispatch" ELSE "init_error"
    /\ runs' = runs + 1
    /\ UNCHANGED << argv, raw, files, artifacts, i, port, forwarded, command, output >>

\* check_args(args, name), then the branch's handler; download_and_convert
\* returns (dlok) or raises, and a raise ends the invocation.
CheckThenCall(a, name, handler, next) ==
    \E dlok \in BOOLEAN :
      LET c == CheckArgs(a, name, artifacts)
          failed == c.acquire /\ ~dlok
      IN /\ calls' = calls \o c.calls \o (IF failed THEN << >> ELSE handler)
         /\ pc' = IF failed THEN "acq_error" ELSE next
         /\ args' = a

Chat ==
    /\ pc = "dispatch"
    /\ args.command = "chat"
    /\ CheckThenCall([args EXCEPT !.chat = TRUE], "chat", << "generate_main" >>, "done")
    /\ UNCHANGED << argv, raw, files, artifacts, i, port, forwarded, command,
                    output, runs >>

\* The browser branch up to the start of the scan loop (port = 5000, i = 2),
\* which a failed acquisition does not reach.
Browser ==
    /\ pc = "dispatch"
    /\ args.command = "browser"
    /\ CheckThenCall([args EXCEPT !.chat = TRUE, !.gui = TRUE], "browser", << >>, "scan")
    /\ port' = IF pc' = "scan" THEN IntPort(DefaultPort) ELSE port
    /\ i' = IF pc' = "scan" THEN 2 ELSE i
    /\ UNCHANGED << argv, raw, files, artifacts, forwarded, command, output, runs >>

\* One turn of the while loop; leaving it goes on to build the command.
ScanStep ==
    /\ pc = "scan"
    /\ LET n == ScanIter(argv, i, port) IN
         /\ argv' = n.argv
         /\ i' = n.i
         /\ port' = n.port
         /\ pc' = IF n.exit THEN "launch" ELSE "scan"
    /\ UNCHANGED << raw, files, artifacts, args, forwarded, command, calls,
                    output, runs >>

\* args_plus_chat, command, subprocess.run(command)
Launch ==
    /\ pc = "launch"
    /\ forwarded' = ArgsPlusChat(argv)
    /\ command' = FlaskCommand(argv, port)
    /\ calls' = Append(calls, "subprocess.run")
    /\ pc' = "done"
    /\ UNCHANGED << argv, raw, files, artifacts, args, i, port, output, runs >>

Download ==
    /\ pc = "dispatch"
    /\ args.command = "download"
    /\ CheckThenCall(args, "download", << "download_main" >>, "done")
    /\ UNCHANGED << argv, raw, files, artifacts, i, port, forwarded, command,
                    output, runs >>

Generate ==
    /\ pc = "dispatch"
    /\ args.command = "generate"
    /\ CheckThenCall(args, "generate", << "generate_main" >>, "done")
    /\ UNCHANGED << argv, raw, files, artifacts, i, port, forwarded, command,
                    output, runs >>

\* Mutant of Eval: the branch runs check_args like generate and export do.
EvalChecked ==
    /\ pc = "dispatch"
    /\ args.command = "eval"
    /\ CheckThenCall(args, "eval", << "eval_main" >>, "done")
    /\ UNCHANGED << argv, raw, files, artifacts, i, port, forwarded, command,
                    output, runs >>

Eval ==
    /\ pc = "dispatch"
    /\ args.command = "eval"
    /\ calls' = Append(calls, "eval_main")
    /\ pc' = "done"
    /\ UNCHANGED << argv, raw, files, artifacts, args, i, port, forwarded,
                    command, output, runs >>

Export ==
    /\ pc = "dispatch"
    /\ args.command = "export"
    /\ CheckThenCall(args, "export", << "export_main" >>, "done")
    /\ UNCHANGED << argv, raw, files, artifacts, i, port, forwarded, command,
                    output, runs >>

List ==
    /\ pc = "dispatch"
    /\ args.command = "list"
    /\ CheckThenCall(args, "list", << "list_main" >>, "done")
    /\ UNCHANGED << argv, raw, files, artifacts, i, port, forwarded, command,
                    output, runs >>

Remove ==
    /\ pc = "dispatch"
    /\ args.command = "remove"
    /\ CheckThenCall(args, "remove", << "remove_main" >>, "done")
    /\ UNCHANGED << argv, raw, files, artifacts, i, port, forwarded, command,
                    output, runs >>

\* The final else: parser.print_help().  parse_args only returns a command
\* of Commands (the subparsers are required), so no reachable state enables
\* this branch and Next leaves it out.
PrintHelp ==
    /\ pc = "dispatch"
    /\ args.command \notin Commands
    /\ output' = "help"
    /\ pc' = "done"
    /\ UNCHANGED << argv, raw, files, artifacts, args, i, port, forwarded,
                    command, calls, runs >>

Next ==
    \/ ParseArgs
    \/ ArgInit
    \/ Chat
    \/ Browser
    \/ ScanStep
    \/ Launch
    \/ Download
    \/ Generate
    \/ Eval
    \/ Export
    \/ List
    \/ Remove

Spec == Init /\ [][Next]_vars

\* -------------------------------------------- arg_init applied repeatedly
\* The state after parse_args of `torchchat.py <command> [--quantize q]
\* [--seed n]`, from which arg_init is applied up to MaxRuns times.
ArgInitInputs ==
    {<< Prog, cmd >> \o q \o sd :
        cmd \in Commands,
        q \in {<< >>} \cup {<< "--quantize", v >> : v \in {"hi", "8080"}},
        sd \in {<< >>} \cup {<< "--seed", v >> : v \in IntTokens}}

InitArgInit ==
    /\ argv \in ArgInitInputs
    /\ raw = argv
    /\ files \in FsStates
    /\ artifacts \in BOOLEAN
    /\ args = ParseArgv(argv).ns
    /\ pc = "arg_init"
    /\ NoLocals
    /\ calls = << >>
    /\ output = "none"
    /\ runs = 0

ArgInitAgain ==
    /\ pc = "arg_init"
    /\ runs < MaxRuns
    /\ LET r == ArgInitFn(args, files) IN
         /\ args' = r.args
         /\ calls' = IF r.seeded THEN Append(calls, "torch.manual_seed") ELSE calls
         /\ pc' = IF r.err = "" THEN "arg_init" ELSE "init_error"
    /\ runs' = runs + 1
    /\ UNCHANGED << argv, raw, files, artifacts, i, port, forwarded, command, output >>

SpecArgInit == InitArgInit /\ [][ArgInitAgain]_vars

\* ------------------------------------------- check_args on every input
\* check_args(args, name) for every name, model and artifact state; the
\* name is kept in args.command.
InitCheckArgs ==
    /\ argv = << Prog >>
    /\ raw = argv
    /\ files = [p \in Paths |-> NoFile]
    /\ artifacts \in BOOLEAN
    /\ \E name \in Commands \cup {"foo"},
          m \in {None, Some(""), Some("hi"), Some("--port")},
          sd \in {None, Some(0), Some(8080)} :
           args = [Defaults(name) EXCEPT !.model = m, !.seed = sd]
    /\ pc = "check_args"
    /\ NoLocals
    /\ calls = << >>
    /\ output = "none"
    /\ runs = 0

CheckArgsCall ==
    /\ pc = "check_args"
    /\ CheckThenCall(args, args.command, << >>, "done")
    /\ UNCHANGED << argv, raw, files, artifacts, i, port, forwarded, command,
                    output, runs >>

SpecCheckArgs == InitCheckArgs /\ [][CheckArgsCall]_vars

\* ------------------------------------------------------------ properties
AcquiringCommands == {"chat", "browser", "generate", "export"}
ManagementCommands == {"download", "list", "remove"}
Handlers ==
    {"generate_main", "download_main", "eval_main", "export_main", "list_main",
     "remove_main", "subprocess.run"}
HandlerOf(cmd) ==
    CASE cmd = "chat" -> "generate_main"
      [] cmd = "browser" -> "subprocess.run"
      [] cmd = "download" -> "download_main"
      [] cmd = "generate" -> "generate_main"
      [] cmd = "eval" -> "eval_main"
      [] cmd = "export" -> "export_main"
      [] cmd = "list" -> "list_main"
      [] cmd = "remove" -> "remove_main"

Count(x, s) == Cardinality({k \in 1..Len(s) : s[k] = x})
Occurs(x, s) == \E k \in 1..Len(s) : s[k] = x
PastDispatch == pc \in {"scan", "launch", "done", "acq_error"}

\* C1: chat, browser, generate or export with a named model whose artifacts
\* are absent: download_and_convert is called exactly once, and before the
\* command's handler (for browser, before subprocess.run).
C1_AcquiredOnceBeforeHandler ==
    (args.command \in AcquiringCommands /\ TruthyStr(args.model) /\ ~artifacts) =>
        /\ Count("download_and_convert", calls) <= 1
        /\ PastDispatch => Count("download_and_convert", calls) = 1
        /\ \A k \in 1..Len(calls) :
               calls[k] \in Handlers =>
                   \E j \in 1..(k - 1) : calls[j] = "download_and_convert"
C1_Witness ==
    /\ args.command = "browser"
    /\ TruthyStr(args.model)
    /\ ~artifacts
    /\ pc = "done"
    /\ Occurs("subprocess.run", calls)

\* C2: for eval the router never calls download_and_convert (nor check_args),
\* whatever the model and the artifact directory; eval_main is called directly.
C2_EvalNeverAcquires ==
    args.command = "eval" =>
        /\ ~Occurs("download_and_convert", calls)
        /\ ~Occurs("check_args", calls)
        /\ ~Occurs("is_model_downloaded", calls)
        /\ pc \in {"arg_init", "init_error", "dispatch", "done"}
        /\ pc = "done" => calls[Len(calls)] = "eval_main"
C2_Witness ==
    /\ args.command = "eval"
    /\ TruthyStr(args.model)
    /\ ~artifacts
    /\ pc = "done"

\* C3 as claimed: for download, list and remove the router never calls
\* check_args.
C3_CheckerNeverInvoked ==
    args.command \in ManagementCommands => ~Occurs("check_args", calls)
\* C3 as amended: for download, list and remove the router calls check_args
\* once, which neither consults the artifact directory nor acquires; the
\* command's handler follows directly.
C3_CheckerInvokedWithoutEffect ==
    args.command \in ManagementCommands =>
        /\ ~Occurs("download_and_convert", calls)
        /\ ~Occurs("is_model_downloaded", calls)
        /\ pc # "acq_error"
        /\ pc = "done" =>
               /\ Count("check_args", calls) = 1
               /\ SubSeq(calls, Len(calls) - 1, Len(calls))
                      = << "check_args", HandlerOf(args.command) >>
C3_Witness ==
    /\ args.command = "download"
    /\ TruthyStr(args.model)
    /\ ~artifacts
    /\ pc = "done"

\* C4: check_args(args, name) acquires iff name is none of download, list,
\* remove, a non-empty model was given and its artifacts are absent; in every
\* other case it acquires nothing, cannot fail and leaves args as they were.
C4_AcquiresIff ==
    pc # "check_args" =>
        LET needed == /\ args.command \notin ManagementCommands
                      /\ args.model \notin {None, Some("")}
                      /\ ~artifacts
        IN /\ Occurs("download_and_convert", calls) <=> needed
           /\ Count("download_and_convert", calls) <= 1
           /\ ~needed => pc = "done"
           /\ args = [Defaults(args.command) EXCEPT !.model = args.model,
                                                   !.seed = args.seed]
C4_Witness ==
    /\ pc = "done"
    /\ args.command = "eval"
    /\ args.model = Some("hi")
    /\ ~artifacts
    /\ Occurs("download_and_convert", calls)
\* A further case of C4: an empty model string acquires nothing.
C4_WitnessSkip ==
    /\ pc = "done"
    /\ args.command = "generate"
    /\ args.model = Some("")
    /\ ~artifacts
    /\ ~Occurs("download_and_convert", calls)

\* The raw tokens after the subcommand, every --port flag and its value removed.
RECURSIVE DropPorts(_)
DropPorts(s) ==
    IF s = << >> THEN << >>
    ELSE IF s[1] = "--port" THEN DropPorts(SubSeq(s, 3, Len(s)))
    ELSE << s[1] >> \o DropPorts(Tail(s))

\* C5: the tokens forwarded to the child are the raw tokens without the
\* subcommand token and without every --port flag and its value, the others
\* in their order (each quoted), then the injected chat flag; no --port is
\* forwarded.
C5_ForwardedTokens ==
    (pc = "done" /\ args.command = "browser") =>
        /\ forwarded =
               LET kept == DropPorts(SubSeq(raw, 3, Len(raw)))
               IN [k \in 1..Len(kept) |-> Quote(kept[k])] \o << "\"--chat\"" >>
        /\ \A k \in 1..Len(forwarded) :
               forwarded[k] # Quote("--port")

\* C6: the child is launched on the value after --port in the raw tokens when
\* there is one (the first), and on 5000 when the raw tokens hold no --port.
C6_LaunchPort ==
    (pc = "done" /\ args.command = "browser") =>
        LET P == {k \in 3..(Len(raw) - 1) : raw[k] = "--port"}
            first == CHOOSE k \in P : \A j \in P : k <= j
        IN /\ SubSeq(command, 1, 2) = << "flask", "--app" >>
           /\ SubSeq(command, 4, 5) = << "run", "--port" >>
           /\ P # {} => command[6] = raw[first + 1]
           /\ ~Occurs("--port", raw) => command[6] = "5000"
C6_Witness ==
    /\ pc = "done"
    /\ args.command = "browser"
    /\ raw = << Prog, "browser", "--port", "8080", "--prompt", "hi" >>
    /\ command[6] = "8080"
\* A further case of C6: no --port token, port 5000.
C6_WitnessDefault ==
    /\ pc = "done"
    /\ args.command = "browser"
    /\ ~Occurs("--port", raw)
    /\ command[6] = "5000"

\* C7: when the quantize string is the path of an existing file (holding
\* JSON), the quantize field after arg_init is the parsed content of the
\* file, and every further run of arg_init succeeds and leaves that value.
C7_QuantizeIdempotent ==
    LET q0 == ParseArgv(raw).ns.quantize.val IN
      (runs >= 1 /\ IsFile(files, q0) /\ JsonValid(files[q0])) =>
          /\ pc # "init_error"
          /\ args.quantize = JsonLoads(files[q0])

\* C8: torch.manual_seed is called at most once, before every other
\* collaborator call; once arg_init has returned it has been called iff the
\* seed is neither None nor 0.
C8_SeedOnceFirst ==
    /\ Count("torch.manual_seed", calls) <= 1
    /\ \A k \in 1..Len(calls) : calls[k] = "torch.manual_seed" => k = 1
    /\ ~TruthyInt(args.seed) => ~Occurs("torch.manual_seed", calls)
    /\ (pc \in {"dispatch"} \/ PastDispatch) =>
           (Occurs("torch.manual_seed", calls) <=> TruthyInt(args.seed))
C8_Witness ==
    /\ pc = "done"
    /\ args.seed = Some(8080)
    /\ Len(calls) >= 2
    /\ calls[1] = "torch.manual_seed"
\* A further case of C8: --seed 0 leaves the generator unseeded.
C8_WitnessZero ==
    /\ pc = "done"
    /\ args.seed = Some(0)
    /\ ~Occurs("torch.manual_seed", calls)

C10_ScanTerminates ==
    pc = "scan" =>
        LET n == ScanIter(argv, i, port)
        IN n.exit \/ Len(n.argv) - n.i < Len(argv) - i

====
